---- MODULE Spec2Model ----
(***************************************************************************)
(* Contractor quote portal: the POST /api/quotes submission pipeline       *)
(* (express-validator chain, validateRequest, createQuote, the Quote       *)
(* schema and the global error handler), the listing, PDF and CSV          *)
(* handlers, and the quote store they share.                               *)
(*                                                                         *)
(* Text values are sequences of one-character strings, so that trim,       *)
(* escape, sanitizeString and toUpperCase are computed character by        *)
(* character.  Time is counted in years: projectDate, createdAt and the    *)
(* clock share that unit.                                                  *)
(***************************************************************************)
EXTENDS Integers, Sequences, FiniteSets, TLC

VARIABLES
    store,      \* the quotes collection, in insertion order
    now,        \* the wall clock
    nodeEnv,    \* process.env.NODE_ENV
    req,        \* the request being answered
    res,        \* the response written for it
    inserts,    \* insert commands sent to the store for this request
    pool,       \* config/db: connectionPool, the clients made, the callers
    list,       \* client: the state of the QuotesList component and its requests
    form        \* client: the state of QuoteForm and its ConfirmationMessage

serverVars == <<store, now, nodeEnv, req, res, inserts>>

vars == <<serverVars, pool, list, form>>

----------------------------------------------------------------------------
(* Bounds of the model *)

MaxStore == 3
MaxSubmitted == 1
MaxTime == 1
MaxPage == 3
MaxLimit == 2
MaxCallers == 3
MaxRequests == 3

----------------------------------------------------------------------------
(* Characters *)

LowerSeq == <<"a","b","c","d","e","f","g","h","i","j","k","l","m",
              "n","o","p","q","r","s","t","u","v","w","x","y","z">>
UpperSeq == <<"A","B","C","D","E","F","G","H","I","J","K","L","M",
              "N","O","P","Q","R","S","T","U","V","W","X","Y","Z">>

Range(s) == {s[i] : i \in DOMAIN s}

Lower == Range(LowerSeq)
Upper == Range(UpperSeq)
Letter == Lower \cup Upper
Digit == {"0","1","2","3","4","5","6","7","8","9"}
\* characters that have no plain TLA+ string are named
TAB == "<tab>"
NEWLINE == "<newline>"
DQUOTE == "<dquote>"
BACKSLASH == "<backslash>"
BACKTICK == "<backtick>"

\* what the regular expression class \s matches
Whitespace == {" ", TAB, NEWLINE}

\* the class [a-zA-Z\s-'] of the name and city patterns
NameChar == Letter \cup Whitespace \cup {"-", "'"}
\* the class [a-zA-Z0-9\s\-'] kept by sanitizeString
SanitizeKeep == Letter \cup Digit \cup Whitespace \cup {"-", "'"}

----------------------------------------------------------------------------
(* String functions *)

RECURSIVE trimStart(_)
trimStart(s) ==
    IF s = <<>> THEN <<>>
    ELSE IF Head(s) \in Whitespace THEN trimStart(Tail(s)) ELSE s

RECURSIVE trimEnd(_)
trimEnd(s) ==
    IF s = <<>> THEN <<>>
    ELSE IF s[Len(s)] \in Whitespace THEN trimEnd(SubSeq(s, 1, Len(s) - 1)) ELSE s

\* String.prototype.trim, and the trim() sanitizer of express-validator
trim(s) == trimEnd(trimStart(s))

\* str.replace(/[^...]/g, ""): the characters of s that are in keep
RECURSIVE removeOutside(_, _)
removeOutside(s, keep) ==
    IF s = <<>> THEN <<>>
    ELSE (IF Head(s) \in keep THEN <<Head(s)>> ELSE <<>>) \o removeOutside(Tail(s), keep)

sanitizeString(str) == removeOutside(trim(str), SanitizeKeep)

\* the entity validator.js escape() puts in place of one character
escapeChar(c) ==
    CASE c = "&" -> <<"&","a","m","p",";">>
      [] c = DQUOTE -> <<"&","q","u","o","t",";">>
      [] c = "'" -> <<"&","#","x","2","7",";">>
      [] c = "<" -> <<"&","l","t",";">>
      [] c = ">" -> <<"&","g","t",";">>
      [] c = "/" -> <<"&","#","x","2","F",";">>
      [] c = BACKSLASH -> <<"&","#","x","5","C",";">>
      [] c = BACKTICK -> <<"&","#","9","6",";">>
      [] OTHER -> <<c>>

RECURSIVE escape(_)
escape(s) == IF s = <<>> THEN <<>> ELSE escapeChar(Head(s)) \o escape(Tail(s))

upperChar(c) ==
    IF \E i \in DOMAIN LowerSeq : LowerSeq[i] = c
    THEN UpperSeq[CHOOSE i \in DOMAIN LowerSeq : LowerSeq[i] = c]
    ELSE c

toUpperCase(s) == [i \in DOMAIN s |-> upperChar(s[i])]

isUppercase(s) == s = toUpperCase(s)

isLength(s, min, max) == Len(s) >= min /\ Len(s) <= max

\* /^[a-zA-Z\s-']+$/
matchesNamePattern(s) == Len(s) >= 1 /\ \A i \in DOMAIN s : s[i] \in NameChar

\* /^[A-Z]{2}$/
matchesStatePattern(s) == Len(s) = 2 /\ \A i \in DOMAIN s : s[i] \in Upper

----------------------------------------------------------------------------
(* utils/validation: the validators the Quote schema uses *)

MinRoofSize == 0
MaxRoofSize == 1000000
TwoYears == 2

validStateCodes ==
    { <<"A","L">>, <<"A","K">>, <<"A","Z">>, <<"A","R">>, <<"C","A">>,
      <<"C","O">>, <<"C","T">>, <<"D","E">>, <<"F","L">>, <<"G","A">>,
      <<"H","I">>, <<"I","D">>, <<"I","L">>, <<"I","N">>, <<"I","A">>,
      <<"K","S">>, <<"K","Y">>, <<"L","A">>, <<"M","E">>, <<"M","D">>,
      <<"M","A">>, <<"M","I">>, <<"M","N">>, <<"M","S">>, <<"M","O">>,
      <<"M","T">>, <<"N","E">>, <<"N","V">>, <<"N","H">>, <<"N","J">>,
      <<"N","M">>, <<"N","Y">>, <<"N","C">>, <<"N","D">>, <<"O","H">>,
      <<"O","K">>, <<"O","R">>, <<"P","A">>, <<"R","I">>, <<"S","C">>,
      <<"S","D">>, <<"T","N">>, <<"T","X">>, <<"U","T">>, <<"V","T">>,
      <<"V","A">>, <<"W","A">>, <<"W","V">>, <<"W","I">>, <<"W","Y">> }

validTypes == {"Metal", "TPO", "Foam", "Other"}

validateRoofSize(size) == size > MinRoofSize /\ size <= MaxRoofSize

validateStateCode(stateCode) == toUpperCase(stateCode) \in validStateCodes

validateDate(date, t) == date >= t /\ date <= t + TwoYears

validateRoofType(type) == type \in validTypes

----------------------------------------------------------------------------
(* Errors and responses *)

\* An error object.  nameOwn says whether name is an own enumerable property
\* (the only kind the spread {...err} copies); statusCode 0 and status ""
\* stand for undefined.  message is the list of its "field: message"
\* segments, a plain message being one segment with an empty field.
PlainMessage(text) == <<[field |-> "", message |-> text]>>

NoError ==
    [name |-> "none", nameOwn |-> FALSE, code |-> 0, type |-> "",
     statusCode |-> 0, status |-> "", isOperational |-> FALSE,
     message |-> <<>>, details |-> <<>>]

\* utils/AppError: the constructor
AppError(message, statusCode) ==
    [name |-> "Error", nameOwn |-> FALSE, code |-> 0, type |-> "",
     statusCode |-> statusCode,
     status |-> IF statusCode \div 100 = 4 THEN "fail" ELSE "error",
     isOperational |-> TRUE,
     message |-> message, details |-> <<>>]

\* what Mongoose and the MongoDB driver throw: name lives on the prototype
LibraryError(name, message, details) ==
    [name |-> name, nameOwn |-> FALSE, code |-> 0, type |-> "",
     statusCode |-> 0, status |-> "", isOperational |-> FALSE,
     message |-> message, details |-> details]

\* a failure of the store, named after the class of the error thrown
\* and with a message of its own
StoreError(fault) == LibraryError(fault, PlainMessage(fault), <<>>)

\* config/db: dbConfig.options, which mongoose.connect hands to the driver
retryWrites == TRUE
retryReads == TRUE

\* A fault is what the store answers an operation with: "none", the class of
\* the error, or "MongoNetworkErrorOnce" for a network error on the first
\* attempt only.  A network error is the kind the driver retries, once, when
\* the option is on.
Retryable(fault) == fault \in {"MongoNetworkError", "MongoNetworkErrorOnce"}

\* attempts the driver makes at one operation
Attempts(fault, retry) == IF retry /\ Retryable(fault) THEN 2 ELSE 1

\* what the driver reports to its caller after its attempts
Surfaced(fault, retry) ==
    IF fault = "MongoNetworkErrorOnce"
    THEN (IF retry THEN "none" ELSE "MongoNetworkError")
    ELSE fault

NoPagination ==
    [currentPage |-> 0, totalPages |-> 0, totalQuotes |-> 0, hasMore |-> FALSE]

\* A response nothing has been written to.  keys is the set of top-level
\* keys of a JSON body.
EmptyRes ==
    [status |-> 0, headersSent |-> FALSE, contentType |-> "", disposition |-> 0,
     keys |-> {}, message |-> <<>>, errors |-> <<>>, quotes |-> <<>>,
     pagination |-> NoPagination, csvContent |-> <<>>, pdf |-> <<>>,
     ended |-> FALSE, nextCalls |-> 0]

\* res.status(code).json(body)
Json(r, code, keys) ==
    [r EXCEPT !.status = code, !.headersSent = TRUE,
              !.contentType = "application/json", !.keys = keys, !.ended = TRUE]

----------------------------------------------------------------------------
(* middleware/errorHandler *)

GenericMessage == PlainMessage("Something went wrong!")

handleCastErrorDB(err) == AppError(PlainMessage("Invalid id"), 400)

handleDuplicateFieldsDB(err) == AppError(PlainMessage("Duplicate field value"), 400)

\* "Invalid input data. " followed by the messages of err.errors
handleValidationErrorDB(err) ==
    AppError(PlainMessage("Invalid input data") \o err.details, 400)

handleJSONParseError == AppError(PlainMessage("Invalid JSON format in request body"), 400)

handleMongooseError(err) ==
    IF err.name = "MongooseError"
    THEN AppError(PlainMessage("Database operation failed. Please try again."), 500)
    ELSE err

handleMongoServerError ==
    AppError(PlainMessage("Database connection error. Please try again later."), 503)

sendErrorDev(err, r) ==
    [Json(r, err.statusCode, {"status", "error", "message", "stack"})
        EXCEPT !.message = err.message]

\* the production answer that reports every error as it is
sendErrorProdAsIs(err, r) ==
    [Json(r, err.statusCode, {"status", "message"}) EXCEPT !.message = err.message]

sendErrorProd(err, r) ==
    IF err.isOperational
    THEN [Json(r, err.statusCode, {"status", "message"}) EXCEPT !.message = err.message]
    ELSE [Json(r, 500, {"status", "message"}) EXCEPT !.message = GenericMessage]

\* a copy that keeps what the prototype holds
SpreadCopyWithPrototype(err) == err

\* let error = { ...err }; error.message = err.message: the own enumerable
\* properties and the message, so a name inherited from the prototype is lost
SpreadCopy(err) == [err EXCEPT !.name = IF err.nameOwn THEN @ ELSE ""]

\* the chain of if-statements that maps known error shapes
MapKnownErrors(error) ==
    LET e1 == IF error.name = "CastError" THEN handleCastErrorDB(error) ELSE error
        e2 == IF e1.code = 11000 THEN handleDuplicateFieldsDB(e1) ELSE e1
        e3 == IF e2.name = "ValidationError" THEN handleValidationErrorDB(e2) ELSE e2
        e4 == IF e3.type = "entity.parse.failed" THEN handleJSONParseError ELSE e3
        e5 == IF e4.name = "MongooseError" THEN handleMongooseError(e4) ELSE e4
        e6 == IF e5.name = "MongoServerError" THEN handleMongoServerError ELSE e5
    IN  e6

\* the handler without the headersSent guard
errorHandlerUnguarded(err, r, env) ==
    LET e == [err EXCEPT !.statusCode = IF @ = 0 THEN 500 ELSE @,
                         !.status = IF @ = "" THEN "error" ELSE @]
    IN  IF env = "development"
        THEN sendErrorDev(e, r)
        ELSE sendErrorProd(MapKnownErrors(SpreadCopy(e)), r)

\* module.exports = (err, req, res, next): the response after the handler
errorHandler(err, r, env) ==
    IF r.headersSent
    THEN [r EXCEPT !.nextCalls = @ + 1]
    ELSE LET e == [err EXCEPT !.statusCode = IF @ = 0 THEN 500 ELSE @,
                              !.status = IF @ = "" THEN "error" ELSE @]
         IN  IF env = "development"
             THEN sendErrorDev(e, r)
             ELSE sendErrorProd(MapKnownErrors(SpreadCopy(e)), r)

----------------------------------------------------------------------------
(* controllers/quoteController: validateQuote, the express-validator chains *)

MinNameLength == 2
MaxNameLength == 100
StateCodeLength == 2
FloatGt == 0
FloatLt == 1000000

\* the entry one failing validator adds to validationResult(req)
Check(ok, param, msg) == IF ok THEN <<>> ELSE <<[param |-> param, msg |-> msg]>>

\* isNumeric() and isDate() read the value as text: every number, and every
\* calendar date, of the model is one
isNumeric(v) == v \in Int
isDate(v) == v \in Int

isFloat(v, gt, lt) == v > gt /\ v < lt

\* the custom validator of projectDate, which throws its own messages
projectDateCustom(date, t) ==
    IF date < t THEN Check(FALSE, "projectDate", "Project date cannot be in the past")
    ELSE IF date > t + TwoYears
    THEN Check(FALSE, "projectDate", "Project date cannot be more than 2 years in the future")
    ELSE <<>>

contractorNameChain(v) ==
    LET t == trim(v)
    IN  [value |-> escape(t),
         errors |-> Check(isLength(t, MinNameLength, MaxNameLength),
                          "contractorName", "Invalid value")
                    \o Check(matchesNamePattern(t), "contractorName",
                             "Contractor name must contain only letters, spaces, hyphens and apostrophes")]

companyChain(v) ==
    LET t == trim(v)
    IN  [value |-> escape(t),
         errors |-> Check(isLength(t, MinNameLength, MaxNameLength),
                          "company", "Invalid value")]

roofSizeChain(v) ==
    [value |-> v,
     errors |-> Check(isNumeric(v), "roofSize", "Invalid value")
                \o Check(isFloat(v, FloatGt, FloatLt), "roofSize",
                         "Roof size must be between 1 and 1,000,000 square feet")]

roofTypeChain(v) ==
    [value |-> v,
     errors |-> Check(v \in {"Metal", "TPO", "Foam", "Other"}, "roofType",
                      "Invalid roof type")]

projectCityChain(v) ==
    LET t == trim(v)
    IN  [value |-> escape(t),
         errors |-> Check(matchesNamePattern(t), "projectCity",
                          "City name must contain only letters, spaces, hyphens and apostrophes")]

projectStateChain(v) ==
    LET t == trim(v)
    IN  [value |-> escape(t),
         errors |-> Check(isLength(t, StateCodeLength, StateCodeLength),
                          "projectState", "Invalid value")
                    \o Check(isUppercase(t), "projectState", "Invalid value")
                    \o Check(matchesStatePattern(t), "projectState",
                             "Please use 2-letter state code (e.g., CA)")]

projectDateChain(v, t) ==
    [value |-> v,
     errors |-> Check(isDate(v), "projectDate", "Invalid value")
                \o projectDateCustom(v, t)]

\* Running the chains: req.body with the sanitizers applied, and the errors
\* validationResult(req) then holds, in chain order
validateQuote(body, t) ==
    LET cn == contractorNameChain(body.contractorName)
        co == companyChain(body.company)
        rs == roofSizeChain(body.roofSize)
        rt == roofTypeChain(body.roofType)
        pc == projectCityChain(body.projectCity)
        ps == projectStateChain(body.projectState)
        pd == projectDateChain(body.projectDate, t)
    IN  [body |-> [contractorName |-> cn.value, company |-> co.value,
                   roofSize |-> rs.value, roofType |-> rt.value,
                   projectCity |-> pc.value, projectState |-> ps.value,
                   projectDate |-> pd.value],
         errors |-> cn.errors \o co.errors \o rs.errors \o rt.errors
                    \o pc.errors \o ps.errors \o pd.errors]

----------------------------------------------------------------------------
(* middleware/validateRequest *)

\* errors.array().map(...): field, message (and the value, left out here)
errorMessages(errors) ==
    [i \in DOMAIN errors |-> [field |-> errors[i].param, message |-> errors[i].msg]]

\* the error handed to next, NoError standing for next()
validateRequest(errors) ==
    IF errors # <<>> THEN AppError(errorMessages(errors), 400) ELSE NoError

----------------------------------------------------------------------------
(* models/Quote: quoteSchema *)

SchemaMinLength == 2
SchemaMaxLength == 100

\* Setters of a String path run last-declared first: set: sanitizeString,
\* then trim: true
textSetters(v) == trim(sanitizeString(v))

\* new Quote(req.body): every path set through its setters
NewQuote(body) ==
    [contractorName |-> textSetters(body.contractorName),
     company |-> textSetters(body.company),
     roofSize |-> body.roofSize,
     roofType |-> body.roofType,
     projectCity |-> textSetters(body.projectCity),
     projectState |-> toUpperCase(body.projectState),
     projectDate |-> body.projectDate]

\* the first failing validator of a path gives the path's error
PathError(checks) ==
    LET failing == {i \in DOMAIN checks : ~checks[i].ok}
    IN  IF failing = {} THEN <<>>
        ELSE LET i == CHOOSE j \in failing : \A k \in failing : j <= k
             IN  <<[field |-> checks[i].path, message |-> checks[i].msg]>>

nameChecks(v) ==
    <<[ok |-> v # <<>>, path |-> "contractorName", msg |-> "Contractor name is required"],
      [ok |-> Len(v) >= SchemaMinLength, path |-> "contractorName",
       msg |-> "Name must be at least 2 characters long"],
      [ok |-> Len(v) <= SchemaMaxLength, path |-> "contractorName",
       msg |-> "Name cannot exceed 100 characters"]>>

companyChecks(v) ==
    <<[ok |-> v # <<>>, path |-> "company", msg |-> "Company name is required"],
      [ok |-> Len(v) >= SchemaMinLength, path |-> "company",
       msg |-> "Company name must be at least 2 characters long"],
      [ok |-> Len(v) <= SchemaMaxLength, path |-> "company",
       msg |-> "Company name cannot exceed 100 characters"]>>

\* doc.validate(): the errors of a ValidationError, in schema order
validateDoc(doc, t) ==
    PathError(nameChecks(doc.contractorName))
    \o PathError(companyChecks(doc.company))
    \o PathError(<<[ok |-> validateRoofSize(doc.roofSize), path |-> "roofSize",
                    msg |-> "Invalid roof size. Must be between 1 and 1,000,000 square feet"]>>)
    \o PathError(<<[ok |-> doc.roofType # "", path |-> "roofType",
                    msg |-> "Roof type is required"],
                   [ok |-> validateRoofType(doc.roofType), path |-> "roofType",
                    msg |-> "Invalid roof type. Must be Metal, TPO, Foam, or Other"]>>)
    \o PathError(<<[ok |-> doc.projectCity # <<>>, path |-> "projectCity",
                    msg |-> "Project city is required"]>>)
    \o PathError(<<[ok |-> doc.projectState # <<>>, path |-> "projectState",
                    msg |-> "Project state is required"],
                   [ok |-> validateStateCode(doc.projectState), path |-> "projectState",
                    msg |-> "Invalid state code. Must be a 2-letter US state code"]>>)
    \o PathError(<<[ok |-> validateDate(doc.projectDate, t), path |-> "projectDate",
                    msg |-> "Project date must be between now and 2 years from now"]>>)

\* the document as the store holds it: _id and the timestamps added
Persisted(doc, st, t) ==
    [id |-> Len(st) + 1,
     contractorName |-> doc.contractorName, company |-> doc.company,
     roofSize |-> doc.roofSize, roofType |-> doc.roofType,
     projectCity |-> doc.projectCity, projectState |-> doc.projectState,
     projectDate |-> doc.projectDate, createdAt |-> t, updatedAt |-> t]

\* save() as an upsert on the contractor's name
saveUpsertByName(doc, st, t, fault) ==
    LET errors == validateDoc(doc, t)
        same == {i \in DOMAIN st : st[i].contractorName = doc.contractorName}
    IN  IF errors # <<>>
        THEN [store |-> st, inserts |-> 0,
              err |-> LibraryError("ValidationError",
                                   PlainMessage("Quote validation failed"), errors)]
        ELSE IF Surfaced(fault, retryWrites) # "none"
        THEN [store |-> st, inserts |-> Attempts(fault, retryWrites),
              err |-> StoreError(Surfaced(fault, retryWrites))]
        ELSE IF same # {}
        THEN LET i == CHOOSE i \in same : TRUE
             IN  [store |-> [st EXCEPT ![i] = [Persisted(doc, st, t) EXCEPT !.id = i]],
                  inserts |-> Attempts(fault, retryWrites), err |-> NoError]
        ELSE [store |-> Append(st, Persisted(doc, st, t)),
              inserts |-> Attempts(fault, retryWrites), err |-> NoError]

\* save() that raises the store's error after the insert went through
saveThrowsAfterInsert(doc, st, t, fault) ==
    LET errors == validateDoc(doc, t)
    IN  IF errors # <<>>
        THEN [store |-> st, inserts |-> 0,
              err |-> LibraryError("ValidationError",
                                   PlainMessage("Quote validation failed"), errors)]
        ELSE IF Surfaced(fault, retryWrites) # "none"
        THEN [store |-> Append(st, Persisted(doc, st, t)),
              inserts |-> Attempts(fault, retryWrites),
              err |-> StoreError(Surfaced(fault, retryWrites))]
        ELSE [store |-> Append(st, Persisted(doc, st, t)),
              inserts |-> Attempts(fault, retryWrites), err |-> NoError]

\* newQuote.save(): validation, then one insertOne, which the driver sends
\* once or twice; fault is what the store answers it with.  err is what
\* save() throws.
save(doc, st, t, fault) ==
    LET errors == validateDoc(doc, t)
    IN  IF errors # <<>>
        THEN [store |-> st, inserts |-> 0,
              err |-> LibraryError("ValidationError",
                                   PlainMessage("Quote validation failed"), errors)]
        ELSE IF Surfaced(fault, retryWrites) # "none"
        THEN [store |-> st, inserts |-> Attempts(fault, retryWrites),
              err |-> StoreError(Surfaced(fault, retryWrites))]
        ELSE [store |-> Append(st, Persisted(doc, st, t)),
              inserts |-> Attempts(fault, retryWrites), err |-> NoError]

----------------------------------------------------------------------------
(* controllers/quoteController: createQuote *)

\* errors and body are validationResult(req) and req.body as the chains left
\* them.  The result is the store, the response and the error given to next.
createQuote(errors, body, st, t, fault, r) ==
    IF errors # <<>>
    THEN [store |-> st, inserts |-> 0, err |-> NoError,
          res |-> [Json(r, 400, {"message", "errors"})
                     EXCEPT !.message = PlainMessage("Invalid input data"),
                            !.errors = errors]]
    ELSE LET saved == save(NewQuote(body), st, t, fault)
         IN  IF saved.err # NoError
             THEN [store |-> saved.store, inserts |-> saved.inserts,
                   err |-> saved.err, res |-> r]
             ELSE [store |-> saved.store, inserts |-> saved.inserts, err |-> NoError,
                   res |-> [Json(r, 201, {"message", "quote"})
                              EXCEPT !.message = PlainMessage("Quote submitted successfully"),
                                     !.quotes = <<saved.store[Len(saved.store)]>>]]

\* router.post("/quotes", validateQuote, validateRequest, createQuote), with
\* the global error handler behind it
postQuotes(body, st, t, fault, env) ==
    LET v == validateQuote(body, t)
        rejected == validateRequest(v.errors)
    IN  IF rejected # NoError
        THEN [store |-> st, inserts |-> 0,
              res |-> errorHandler(rejected, EmptyRes, env)]
        ELSE LET c == createQuote(v.errors, v.body, st, t, fault, EmptyRes)
             IN  [store |-> c.store, inserts |-> c.inserts,
                  res |-> IF c.err # NoError THEN errorHandler(c.err, c.res, env)
                          ELSE c.res]

\* app.all("*"): the error made for a path no route matches
routeNotFoundError ==
    [name |-> "Error", nameOwn |-> FALSE, code |-> 0, type |-> "",
     statusCode |-> 404, status |-> "fail", isOperational |-> FALSE,
     message |-> PlainMessage("Can't find the path on this server!"), details |-> <<>>]

\* a request no route matches: the catch-all, then the global error handler
notFound(env) == errorHandler(routeNotFoundError, EmptyRes, env)

----------------------------------------------------------------------------
(* controllers/quoteController: the store queries of the read handlers *)

DefaultPage == 1
DefaultLimit == 10

\* An optional query parameter is a sequence of length 0 or 1; a text one is
\* absent when empty, which is what if (state) tests.

\* the query built without normalising the state code
buildQueryAsGiven(state, roofType) ==
    [projectState |-> IF state # <<>> THEN <<state>> ELSE <<>>,
     roofType |-> IF roofType # "" THEN <<roofType>> ELSE <<>>]

\* const query = {}; if (state) ...; if (roofType) ...
buildQuery(state, roofType) ==
    [projectState |-> IF state # <<>> THEN <<toUpperCase(state)>> ELSE <<>>,
     roofType |-> IF roofType # "" THEN <<roofType>> ELSE <<>>]

\* a match on either filter instead of both
matchesQueryEither(doc, query) ==
    \/ query.projectState = <<>> /\ query.roofType = <<>>
    \/ query.projectState # <<>> /\ doc.projectState = query.projectState[1]
    \/ query.roofType # <<>> /\ doc.roofType = query.roofType[1]

matchesQuery(doc, query) ==
    /\ query.projectState = <<>> \/ doc.projectState = query.projectState[1]
    /\ query.roofType = <<>> \/ doc.roofType = query.roofType[1]

\* the filter that also drops the quotes whose project date has passed
filterDocsUpcoming(st, query) ==
    SelectSeq(st, LAMBDA q : matchesQuery(q, query) /\ q.projectDate >= now)

RECURSIVE filterDocs(_, _)
filterDocs(st, query) ==
    IF st = <<>> THEN <<>>
    ELSE (IF matchesQuery(Head(st), query) THEN <<Head(st)>> ELSE <<>>)
         \o filterDocs(Tail(st), query)

\* Quote.countDocuments(query)
countDocuments(st, query) == Len(filterDocs(st, query))

\* one document put into a list that is ordered createdAt descending; among
\* equal createdAt the later insert comes first, the order of a backward
\* scan of the createdAt index
RECURSIVE insertDesc(_, _)
insertDesc(sorted, doc) ==
    IF sorted = <<>> THEN <<doc>>
    ELSE IF Head(sorted).createdAt <= doc.createdAt THEN <<doc>> \o sorted
    ELSE <<Head(sorted)>> \o insertDesc(Tail(sorted), doc)

RECURSIVE sortCreatedDesc(_)
sortCreatedDesc(docs) ==
    IF docs = <<>> THEN <<>>
    ELSE insertDesc(sortCreatedDesc(SubSeq(docs, 1, Len(docs) - 1)), docs[Len(docs)])

Min(a, b) == IF a < b THEN a ELSE b

\* Quote.find(query, null, {sort: {createdAt: -1}, limit, skip})
\* a page that runs one quote into the next page
findPageOverlapping(st, query, limit, skip) ==
    LET sorted == sortCreatedDesc(filterDocs(st, query))
    IN  SubSeq(sorted, skip + 1, Min(skip + limit + 1, Len(sorted)))

findPage(st, query, limit, skip) ==
    LET sorted == sortCreatedDesc(filterDocs(st, query))
    IN  SubSeq(sorted, skip + 1, Min(skip + limit, Len(sorted)))

\* Quote.find(query).sort({createdAt: -1})
findAll(st, query) == sortCreatedDesc(filterDocs(st, query))

\* Math.floor in place of Math.ceil
Floor(a, b) == a \div b

\* Math.ceil(a / b) for b >= 1
Ceil(a, b) == (a + b - 1) \div b

----------------------------------------------------------------------------
(* controllers/quoteController: getQuotes *)

\* q is req.query: the handler reads state, roofType, page and limit of it
\* and nothing else
\* parseInt(page) and parseInt(limit), with their defaults
pageOf(q) == IF q.page = <<>> THEN DefaultPage ELSE q.page[1]
limitOf(q) == IF q.limit = <<>> THEN DefaultLimit ELSE q.limit[1]

\* Quote.find(query, null, options) of the request
findOf(q, st) ==
    findPage(st, buildQuery(q.state, q.roofType), limitOf(q), (pageOf(q) - 1) * limitOf(q))

\* Quote.countDocuments(query) of the request
countOf(q, st) == countDocuments(st, buildQuery(q.state, q.roofType))

\* res.status(200).json({quotes, pagination}) from the two results
listResponse(q, quotes, total) ==
    [Json(EmptyRes, 200, {"quotes", "pagination"})
        EXCEPT !.quotes = quotes,
               !.pagination = [currentPage |-> pageOf(q),
                               totalPages |-> Ceil(total, limitOf(q)),
                               totalQuotes |-> total,
                               hasMore |-> pageOf(q) * limitOf(q) < total]]

\* the handler with nothing committed between its two queries
getQuotes(q, st, fault, env) ==
    IF Surfaced(fault, retryReads) # "none"
    THEN errorHandler(StoreError(Surfaced(fault, retryReads)), EmptyRes, env)
    ELSE listResponse(q, findOf(q, st), countOf(q, st))

----------------------------------------------------------------------------
(* controllers/quoteController: generateQuotePDF *)

\* An id parameter is a number: the positive ones stand for the strings that
\* cast to an ObjectId, the others for the strings that do not.
castsToObjectId(id) == id >= 1

\* Quote.findById(id): the documents with that _id, at most one
RECURSIVE findById(_, _)
findById(st, id) ==
    IF st = <<>> THEN <<>>
    ELSE (IF Head(st).id = id THEN <<Head(st)>> ELSE <<>>) \o findById(Tail(st), id)


DigitSeq == <<"0","1","2","3","4","5","6","7","8","9">>

\* a number as text, as a template literal and Array.prototype.join write it
RECURSIVE numberToString(_)
numberToString(n) ==
    IF n < 0 THEN <<"-">> \o numberToString(0 - n)
    ELSE IF n < 10 THEN <<DigitSeq[n + 1]>>
    ELSE numberToString(n \div 10) \o <<DigitSeq[(n % 10) + 1]>>

\* new Date(d).toLocaleDateString(): the date as text, without the time.  A
\* date is a number of time units, and its text the digits of that number.
toLocaleDateString(d) == numberToString(d)

\* the lines the handler writes into the document, in order
pdfLines(quote) ==
    << <<"Roofing Project Quote">>,
       <<"Company Information">>,
       <<"Contractor: ", quote.contractorName>>,
       <<"Company: ", quote.company>>,
       <<"Project Details">>,
       <<"Roof Size: ", quote.roofSize, " sq ft">>,
       <<"Roof Type: ", quote.roofType>>,
       <<"Location: ", quote.projectCity, ", ", quote.projectState>>,
       <<"Project Date: ", toLocaleDateString(quote.projectDate)>>,
       <<"This quote is valid for 30 days from the project date.">> >>

\* A fault of the rendering: a call on the document throws after the headers
\* were set and the document piped to the response, either before the first
\* bytes went out or after.
RenderFaults == {"RenderErrorBeforeFlush", "RenderErrorAfterFlush"}

\* the response when the rendering throws: the headers set, and with the
\* first bytes out the status line and headers sent with the title line
Streaming(quote, fault) ==
    IF fault = "RenderErrorAfterFlush"
    THEN [EmptyRes EXCEPT !.status = 200, !.headersSent = TRUE,
                          !.contentType = "application/pdf",
                          !.disposition = quote.id,
                          !.pdf = SubSeq(pdfLines(quote), 1, 1)]
    ELSE [EmptyRes EXCEPT !.contentType = "application/pdf",
                          !.disposition = quote.id]

\* the handler without the not-found check: headers and an empty document
generateQuotePDFUnchecked(id, st, fault, env) ==
    IF ~castsToObjectId(id)
    THEN errorHandler(LibraryError("CastError", PlainMessage("Cast to ObjectId failed"), <<>>),
                      EmptyRes, env)
    ELSE IF Surfaced(fault, retryReads) # "none"
    THEN errorHandler(StoreError(Surfaced(fault, retryReads)), EmptyRes, env)
    ELSE LET found == findById(st, id)
         IN  [EmptyRes EXCEPT !.status = 200, !.headersSent = TRUE,
                              !.contentType = "application/pdf",
                              !.disposition = id,
                              !.pdf = IF found = <<>> THEN <<>> ELSE pdfLines(found[1]),
                              !.ended = TRUE]

generateQuotePDF(id, st, fault, env) ==
    IF ~castsToObjectId(id)
    THEN errorHandler(LibraryError("CastError", PlainMessage("Cast to ObjectId failed"), <<>>),
                      EmptyRes, env)
    ELSE IF fault \notin RenderFaults /\ Surfaced(fault, retryReads) # "none"
    THEN errorHandler(StoreError(Surfaced(fault, retryReads)), EmptyRes, env)
    ELSE LET found == findById(st, id)
         IN  IF found = <<>>
             THEN [Json(EmptyRes, 404, {"message"})
                     EXCEPT !.message = PlainMessage("Quote not found")]
             ELSE IF fault \in RenderFaults
             THEN errorHandler(LibraryError("Error", PlainMessage("render failure"), <<>>),
                               Streaming(found[1], fault), env)
             ELSE [EmptyRes EXCEPT !.status = 200, !.headersSent = TRUE,
                                   !.contentType = "application/pdf",
                                   !.disposition = found[1].id,
                                   !.pdf = pdfLines(found[1]),
                                   !.ended = TRUE]

----------------------------------------------------------------------------
(* controllers/quoteController: exportQuotesCSV *)

\* A cell is a text, a sequence of characters; a literal of the code and a
\* roof type are texts of one element.
csvHeader ==
    << <<"Contractor Name">>, <<"Company">>, <<"Roof Size (sq ft)">>,
       <<"Roof Type">>, <<"Project City">>, <<"Project State">>,
       <<"Project Date">>, <<"Submission Date">> >>

csvRow(quote) ==
    <<quote.contractorName, quote.company, numberToString(quote.roofSize),
      <<quote.roofType>>, quote.projectCity, quote.projectState,
      toLocaleDateString(quote.projectDate), toLocaleDateString(quote.createdAt)>>

\* Array.prototype.join: the texts one after the other, sep between them
RECURSIVE join(_, _)
join(texts, sep) ==
    IF texts = <<>> THEN <<>>
    ELSE IF Len(texts) = 1 THEN texts[1]
    ELSE texts[1] \o <<sep>> \o join(Tail(texts), sep)

\* the text without its first row
csvContentOfDataRows(csvRows) ==
    join([i \in DOMAIN Tail(csvRows) |-> join(Tail(csvRows)[i], ",")], NEWLINE)

\* csvRows.map((row) => row.join(",")).join("\n")
csvContentOf(csvRows) ==
    join([i \in DOMAIN csvRows |-> join(csvRows[i], ",")], NEWLINE)

\* stringField.replace(/"/g, '""')
RECURSIVE doubleQuotes(_)
doubleQuotes(s) ==
    IF s = <<>> THEN <<>>
    ELSE (IF Head(s) = DQUOTE THEN <<DQUOTE, DQUOTE>> ELSE <<Head(s)>>)
         \o doubleQuotes(Tail(s))

\* utils/csvGenerator, which the handler does not call: formatField
formatField(field) ==
    IF \E i \in DOMAIN field : field[i] \in {",", NEWLINE, DQUOTE}
    THEN <<DQUOTE>> \o doubleQuotes(field) \o <<DQUOTE>>
    ELSE field

\* the export with the roofType filter left out of the query
exportQuotesCSVByStateOnly(q, st, fault, env) ==
    LET query == buildQuery(q.state, "")
        quotes == findAll(st, query)
        csvRows == <<csvHeader>> \o [i \in DOMAIN quotes |-> csvRow(quotes[i])]
    IN  IF Surfaced(fault, retryReads) # "none"
        THEN errorHandler(StoreError(Surfaced(fault, retryReads)), EmptyRes, env)
        ELSE [EmptyRes EXCEPT !.status = 200, !.headersSent = TRUE,
                              !.contentType = "text/csv",
                              !.csvContent = csvContentOf(csvRows),
                              !.ended = TRUE]

\* csvRows: the header, then one row for each quote found
exportQuotesCSV(q, st, fault, env) ==
    LET query == buildQuery(q.state, q.roofType)
        quotes == findAll(st, query)
        csvRows == <<csvHeader>> \o [i \in DOMAIN quotes |-> csvRow(quotes[i])]
    IN  IF Surfaced(fault, retryReads) # "none"
        THEN errorHandler(StoreError(Surfaced(fault, retryReads)), EmptyRes, env)
        ELSE [EmptyRes EXCEPT !.status = 200, !.headersSent = TRUE,
                              !.contentType = "text/csv",
                              !.csvContent = csvContentOf(csvRows),
                              !.ended = TRUE]

----------------------------------------------------------------------------
(* client QuoteForm: validationSchema (Yup) *)

YupMinLength == 2
YupMaxLength == 100
YupMaxRoofSize == 1000000

\* US_STATES.map((state) => state.code)
usStateCodes == validStateCodes

\* whether the schema, built at time builtAt, accepts the form values
validationSchema(values, builtAt) ==
    /\ values.contractorName # <<>>
    /\ Len(values.contractorName) >= YupMinLength
    /\ Len(values.contractorName) <= YupMaxLength
    /\ matchesNamePattern(values.contractorName)
    /\ values.company # <<>>
    /\ Len(values.company) >= YupMinLength
    /\ Len(values.company) <= YupMaxLength
    /\ values.roofSize > 0
    /\ values.roofSize <= YupMaxRoofSize
    /\ values.roofType \in {"Metal", "TPO", "Foam", "Other"}
    /\ values.projectCity # <<>>
    /\ matchesNamePattern(values.projectCity)
    /\ values.projectState \in usStateCodes
    /\ values.projectDate >= builtAt
    /\ values.projectDate <= builtAt + TwoYears

----------------------------------------------------------------------------
(* Requests *)

\* the error classes a failing store call is modelled to throw
Faults ==
    {"none", "MongoServerError", "MongooseError", "MongoNetworkError",
     "MongoNetworkErrorOnce"}

CA == <<"C","A">>
TX == <<"T","X">>

\* a submission every layer accepts at time t
BaseBody(t) ==
    [contractorName |-> <<"A","l">>, company |-> <<"C","o">>, roofSize |-> 2500,
     roofType |-> "Metal", projectCity |-> <<"E","l","y">>, projectState |-> CA,
     projectDate |-> t + 1]

\* submissions that differ in the two fields the filters read: three that are
\* accepted, and one rejected for each of roof type, state case and state code.
\* Their project starts now, the earliest date the validators accept.
ListingBodies(t) ==
    {[BaseBody(t) EXCEPT !.projectState = b[1], !.roofType = b[2],
                         !.projectDate = t] :
        b \in {<<CA, "Metal">>, <<CA, "TPO">>, <<TX, "Metal">>,
                <<CA, "Tile">>, <<<<"c","a">>, "Metal">>, <<<<"Z","Z">>, "Metal">>}}

Fields ==
    {"contractorName", "company", "roofSize", "roofType", "projectCity",
     "projectState", "projectDate"}

\* other values of each field, valid and invalid
Variants(t) ==
    [f \in Fields |->
        CASE f = "contractorName" ->
                { <<" ","O","'","N"," ">>, <<>>, <<"A">>, <<"A","1">> }
          [] f = "company" ->
                { <<"A","&","B">>, <<"X">>, <<"C","o"," ","!">>, <<"A",NEWLINE,"B">> }
          [] f = "roofSize" -> {0, 999999, 1000000, 1000001}
          [] f = "roofType" -> {"Tile"}
          [] f = "projectCity" -> { <<"D","'","L","o">>, <<"S","t",".">> }
          [] f = "projectState" -> { <<"c","a">>, <<"Z","Z">>, <<"C">> }
          [] f = "projectDate" -> {t - 1, t, t + TwoYears, t + TwoYears + 1}]

\* BaseBody with at most two fields given another value
CandidateBodies(t) ==
    UNION {{[[BaseBody(t) EXCEPT ![f1] = v1] EXCEPT ![f2] = v2] :
                v1 \in Variants(t)[f1], v2 \in Variants(t)[f2]} :
           f1 \in Fields, f2 \in Fields}

NoQuery ==
    [state |-> <<>>, roofType |-> "", page |-> <<>>, limit |-> <<>>,
     sortBy |-> "", sortOrder |-> ""]

StateFilters == {<<>>, <<"c","a">>, CA}
RoofTypeFilters == {"", "Metal", "TPO"}
Pages == {<<>>} \cup {<<p>> : p \in 1..MaxPage}
Limits == {<<>>} \cup {<<l>> : l \in 1..MaxLimit}

\* the sort parameters the API documents; absent when empty
SortBys == {"", "createdAt"}
SortOrders == {"", "asc"}

\* filters with paging, and the sort parameters on their own
ListQueries ==
    [state : StateFilters, roofType : RoofTypeFilters, page : Pages, limit : Limits,
     sortBy : {""}, sortOrder : {""}]
    \cup {[NoQuery EXCEPT !.sortBy = by, !.sortOrder = ord] :
             by \in SortBys, ord \in SortOrders}

CsvQueries ==
    [state : StateFilters, roofType : RoofTypeFilters, page : {<<>>}, limit : {<<>>},
     sortBy : {""}, sortOrder : {""}]

\* id parameters: ids the store may have given out, one it has not, and one
\* that is no ObjectId
IdParams == 0..(MaxStore + 1)

\* A failing store is tried on the request without parameters: the handlers
\* answer a failure without looking at the query.
FaultsFor(q) == IF q = NoQuery THEN Faults ELSE {"none"}

NoReq == [kind |-> "none", body |-> BaseBody(0), query |-> NoQuery, id |-> 0,
          fault |-> "none"]

\* the callers of getConnection, all with the default URI
Callers == 1..MaxCallers

----------------------------------------------------------------------------
(* The state machine *)

Init ==
    /\ store = <<>>
    /\ now = 0
    /\ nodeEnv \in {"development", "production"}
    /\ req = NoReq
    /\ res = EmptyRes
    /\ inserts = 0
    /\ pool = [entry |-> 0, opened |-> {}, made |-> 0, closed |-> FALSE,
               callers |-> [c \in Callers |-> [pc |-> "idle", got |-> 0]]]
    /\ list = [mounted |-> FALSE, filters |-> [state |-> <<>>, roofType |-> ""],
               loading |-> TRUE, error |-> FALSE,
               quotes |-> [request |-> 0, filters |-> [state |-> <<>>, roofType |-> ""]],
               issued |-> 0, pending |-> {}]
    /\ form = [loaded |-> FALSE, builtAt |-> 0, date |-> 0, fieldError |-> FALSE,
               submitting |-> FALSE, message |-> "", show |-> FALSE, timer |-> 0]

\* Requests are answered one at a time: a handler runs when no request is
\* being answered, and Finish ends the exchange.

\* POST /api/quotes with a body of bodies, while the store holds fewer than
\* cap quotes
PostFrom(bodies, cap) ==
    /\ req.kind = "none"
    /\ Len(store) < cap
    /\ \E body \in bodies, fault \in Faults :
         LET out == postQuotes(body, store, now, fault, nodeEnv)
         IN  /\ store' = out.store
             /\ inserts' = out.inserts
             /\ res' = out.res
             /\ req' = [NoReq EXCEPT !.kind = "post", !.body = body, !.fault = fault]
    /\ UNCHANGED <<now, nodeEnv, pool, list, form>>

PostQuote == PostFrom(ListingBodies(now), MaxStore)

SubmitCandidate == PostFrom(CandidateBodies(now), MaxSubmitted)

\* GET /api/quotes
GetQuotes ==
    /\ req.kind = "none"
    /\ \E q \in ListQueries : \E fault \in FaultsFor(q) :
         /\ res' = getQuotes(q, store, fault, nodeEnv)
         /\ req' = [NoReq EXCEPT !.kind = "list", !.query = q, !.fault = fault]
    /\ UNCHANGED <<store, now, nodeEnv, inserts, pool, list, form>>

\* GET /api/quotes/:id/pdf
GetQuotePDF ==
    /\ req.kind = "none"
    /\ \E id \in IdParams, fault \in Faults \cup RenderFaults :
         /\ res' = generateQuotePDF(id, store, fault, nodeEnv)
         /\ req' = [NoReq EXCEPT !.kind = "pdf", !.id = id, !.fault = fault]
    /\ UNCHANGED <<store, now, nodeEnv, inserts, pool, list, form>>

\* GET /api/quotes/export/csv
ExportCSV ==
    /\ req.kind = "none"
    /\ \E q \in CsvQueries : \E fault \in FaultsFor(q) :
         /\ res' = exportQuotesCSV(q, store, fault, nodeEnv)
         /\ req' = [NoReq EXCEPT !.kind = "csv", !.query = q, !.fault = fault]
    /\ UNCHANGED <<store, now, nodeEnv, inserts, pool, list, form>>

\* a request to a path or method without a route
UnknownRoute ==
    /\ req.kind = "none"
    /\ res' = notFound(nodeEnv)
    /\ req' = [NoReq EXCEPT !.kind = "other"]
    /\ UNCHANGED <<store, now, nodeEnv, inserts, pool, list, form>>

\* the response has gone out and the connection is closed
Finish ==
    /\ req.kind # "none"
    /\ req' = NoReq
    /\ res' = EmptyRes
    /\ inserts' = 0
    /\ UNCHANGED <<store, now, nodeEnv, pool, list, form>>

\* the clock advances
Tick ==
    /\ req.kind = "none"
    /\ now < MaxTime
    /\ now' = now + 1
    /\ UNCHANGED <<store, nodeEnv, req, res, inserts, pool, list, form>>

Next ==
    PostQuote \/ GetQuotes \/ GetQuotePDF \/ ExportCSV \/ UnknownRoute \/ Finish \/ Tick

Spec == Init /\ [][Next]_vars

\* GET /api/quotes step by step.  Promise.all sends find and countDocuments
\* together; the store answers each at its own time, in either order, and
\* other requests are served in between.  In res the handler's two results
\* are kept until both are in.

\* the handler up to Promise.all: both queries sent
ListStart ==
    /\ req.kind = "none"
    /\ \E q \in ListQueries :
         req' = [NoReq EXCEPT !.kind = "listSent", !.query = q]
    /\ res' = EmptyRes
    /\ UNCHANGED <<store, now, nodeEnv, inserts, pool, list, form>>

\* the store answers find
ListFind ==
    /\ req.kind \in {"listSent", "listCounted"}
    /\ res' = [res EXCEPT !.quotes = findOf(req.query, store)]
    /\ req' = [req EXCEPT !.kind = IF @ = "listSent" THEN "listFound" ELSE "listBoth"]
    /\ UNCHANGED <<store, now, nodeEnv, inserts, pool, list, form>>

\* the store answers countDocuments
ListCount ==
    /\ req.kind \in {"listSent", "listFound"}
    /\ res' = [res EXCEPT !.pagination.totalQuotes = countOf(req.query, store)]
    /\ req' = [req EXCEPT !.kind = IF @ = "listSent" THEN "listCounted" ELSE "listBoth"]
    /\ UNCHANGED <<store, now, nodeEnv, inserts, pool, list, form>>

\* Promise.all resolved: the response from the two results
ListRespond ==
    /\ req.kind = "listBoth"
    /\ res' = listResponse(req.query, res.quotes, res.pagination.totalQuotes)
    /\ req' = [req EXCEPT !.kind = "list"]
    /\ UNCHANGED <<store, now, nodeEnv, inserts, pool, list, form>>

\* a submission of another client, served while the listing waits
PostMeanwhile ==
    /\ req.kind \in {"listSent", "listFound", "listCounted", "listBoth"}
    /\ Len(store) < MaxStore
    /\ \E body \in ListingBodies(now) :
         store' = postQuotes(body, store, now, "none", nodeEnv).store
    /\ UNCHANGED <<now, nodeEnv, req, res, inserts, pool, list, form>>

NextInterleaved ==
    \/ PostQuote \/ ListStart \/ ListFind \/ ListCount \/ ListRespond
    \/ PostMeanwhile \/ Finish \/ Tick

SpecInterleaved == Init /\ [][NextInterleaved]_vars

\* config/db: getConnection(uri) of each caller, step by step, and
\* closeAllConnections.  pool.entry is the client the map holds under the
\* URI, 0 for none; clients are numbered as they are made.

\* getConnection up to its await: the map's client when it has one, else
\* MongoClient.connect is started
GetConnection(c) ==
    /\ pool.callers[c].pc = "idle"
    /\ pool' = [pool EXCEPT !.callers[c] =
                   IF pool.entry # 0
                   THEN [pc |-> "returned", got |-> pool.entry]
                   ELSE [pc |-> "connecting", got |-> 0]]
    /\ UNCHANGED <<serverVars, list, form>>

\* connect resolved: the new client is put in the map and returned
Connected(c) ==
    /\ pool.callers[c].pc = "connecting"
    /\ LET client == pool.made + 1
       IN  pool' = [pool EXCEPT !.made = client,
                                !.opened = @ \cup {client},
                                !.entry = client,
                                !.callers[c] = [pc |-> "returned", got |-> client]]
    /\ UNCHANGED <<serverVars, list, form>>

\* connect rejected: the error is thrown to the caller
ConnectFailed(c) ==
    /\ pool.callers[c].pc = "connecting"
    /\ pool' = [pool EXCEPT !.callers[c] = [pc |-> "threw", got |-> 0]]
    /\ UNCHANGED <<serverVars, list, form>>

\* closeAllConnections: the clients of the map are closed, the map cleared
closeAllConnections ==
    /\ pool.entry # 0
    /\ pool' = [pool EXCEPT !.opened = @ \ {pool.entry}, !.entry = 0,
                            !.closed = TRUE]
    /\ UNCHANGED <<serverVars, list, form>>

NextPool ==
    \/ \E c \in Callers : GetConnection(c)
    \/ \E c \in Callers : Connected(c)
    \/ \E c \in Callers : ConnectFailed(c)
    \/ closeAllConnections

SpecPool == Init /\ [][NextPool]_vars

\* client: the QuotesList component.  list.quotes is what setQuotes last
\* stored, named by the request whose response it was; list.pending are the
\* getQuotes calls not yet settled, numbered in the order they were made.

\* the filter controls rendered under the loading display too
FiltersRenderedWhileLoading(l) == ~l.error

\* the component renders the filter controls: neither early return is taken
FiltersRendered(l) == ~l.loading /\ ~l.error

\* fetchQuotes up to its await, with the filters of the render it belongs to
fetchQuotes(l, filters) ==
    [l EXCEPT !.filters = filters, !.loading = TRUE, !.error = FALSE,
              !.issued = @ + 1,
              !.pending = @ \cup {[request |-> l.issued + 1, filters |-> filters]}]

\* the first render and its effect
MountList ==
    /\ ~list.mounted
    /\ list' = fetchQuotes([list EXCEPT !.mounted = TRUE], list.filters)
    /\ UNCHANGED <<serverVars, pool, form>>

\* handleFilterChange on one of the two selects, and the effect of the
\* render that follows
handleFilterChange ==
    /\ list.mounted /\ FiltersRendered(list)
    /\ list.issued < MaxRequests
    /\ \/ \E v \in {<<>>, CA, TX} :
            list' = fetchQuotes(list, [list.filters EXCEPT !.state = v])
       \/ \E v \in {"", "Metal"} :
            list' = fetchQuotes(list, [list.filters EXCEPT !.roofType = v])
    /\ UNCHANGED <<serverVars, pool, form>>

\* handleClearFilters, and the effect of the render that follows
handleClearFilters ==
    /\ list.mounted /\ FiltersRendered(list)
    /\ list.issued < MaxRequests
    /\ list' = fetchQuotes(list, [state |-> <<>>, roofType |-> ""])
    /\ UNCHANGED <<serverVars, pool, form>>

\* the Retry button of the error display
Retry ==
    /\ list.mounted /\ ~list.loading /\ list.error
    /\ list.issued < MaxRequests
    /\ list' = fetchQuotes(list, list.filters)
    /\ UNCHANGED <<serverVars, pool, form>>

\* a getQuotes call resolves: the rest of the try block, then finally
QuotesResolved ==
    /\ \E r \in list.pending :
         list' = [list EXCEPT !.pending = @ \ {r}, !.quotes = r, !.loading = FALSE]
    /\ UNCHANGED <<serverVars, pool, form>>

\* a getQuotes call rejects: the catch block, then finally
QuotesRejected ==
    /\ \E r \in list.pending :
         list' = [list EXCEPT !.pending = @ \ {r}, !.error = TRUE, !.loading = FALSE]
    /\ UNCHANGED <<serverVars, pool, form>>

NextList ==
    \/ MountList \/ handleFilterChange \/ handleClearFilters \/ Retry
    \/ QuotesResolved \/ QuotesRejected

SpecList == Init /\ [][NextList]_vars

\* POST /api/quotes answers the submission 201
ServerAccepted(body) ==
    postQuotes(body, store, now, "none", nodeEnv).res.status = 201

\* client: QuoteForm and the ConfirmationMessage it renders.  form.timer is
\* the seconds left on the message's timeout, 0 when none is set.

\* setTimeout(..., 5000), in seconds
TimerDelay == 5

\* the project dates a user may enter
Dates == 0..(MaxTime + TwoYears + 1)

\* the form's values with a project date, its other fields valid
FormValues(d) == [BaseBody(0) EXCEPT !.projectDate = d]

\* ConfirmationMessage after a render with a message: the effect runs when
\* the component is mounted and when the message is another text
ConfirmationMessage(f, message) ==
    IF message # f.message
    THEN [f EXCEPT !.message = message, !.show = TRUE, !.timer = TimerDelay]
    ELSE f

\* the module is evaluated: validationSchema is built, with the dates of
\* this moment
OpenForm ==
    /\ ~form.loaded
    /\ form' = [form EXCEPT !.loaded = TRUE, !.builtAt = now]
    /\ UNCHANGED <<serverVars, pool, list>>

\* the Submit button: Formik validates against the schema and calls
\* handleSubmit when it passes
SubmitForm ==
    /\ form.loaded /\ ~form.submitting
    /\ \E d \in Dates :
         form' = IF validationSchema(FormValues(d), form.builtAt)
                 THEN [form EXCEPT !.date = d, !.fieldError = FALSE, !.submitting = TRUE]
                 ELSE [form EXCEPT !.date = d, !.fieldError = TRUE]
    /\ UNCHANGED <<serverVars, pool, list>>

\* handleSubmit after submitQuote resolved
SubmitResolved ==
    /\ form.submitting
    /\ ServerAccepted(FormValues(form.date))
    /\ form' = ConfirmationMessage([form EXCEPT !.submitting = FALSE], "success")
    /\ UNCHANGED <<serverVars, pool, list>>

\* handleSubmit after submitQuote rejected: the server's answer was an error,
\* or none came
SubmitRejected ==
    /\ form.submitting
    /\ form' = ConfirmationMessage([form EXCEPT !.submitting = FALSE], "failure")
    /\ UNCHANGED <<serverVars, pool, list>>

\* a second passes; the timeout, when it runs out, hides the message
Elapse ==
    /\ form.timer > 0
    /\ form' = [form EXCEPT !.timer = @ - 1,
                            !.show = IF form.timer = 1 THEN FALSE ELSE @]
    /\ UNCHANGED <<serverVars, pool, list>>

NextForm ==
    OpenForm \/ SubmitForm \/ SubmitResolved \/ SubmitRejected \/ Elapse \/ Tick

SpecForm == Init /\ [][NextForm]_vars

\* the submission pipeline over the wider set of bodies, and the export of
\* what it stored
NextSubmit == SubmitCandidate \/ ExportCSV \/ Finish \/ Tick

SpecSubmit == Init /\ [][NextSubmit]_vars

----------------------------------------------------------------------------
(* Properties *)

Posted == req.kind = "post"
Listed == req.kind = "list" /\ res.status = 200
Exported == req.kind = "csv" /\ res.status = 200

\* the quote a 201 answer reports: the last one of the store
Created == store[Len(store)]

\* C1: a POST /api/quotes that is answered 201 adds exactly one quote to the
\* store, behind the quotes already there; a POST answered with anything else
\* leaves the store as it was; and no step adds more than one quote.
C1_OneRecordPerAcceptedSubmission ==
    [][/\ Len(store') <= Len(store) + 1
       /\ (req.kind = "none" /\ req'.kind = "post") =>
             IF res'.status = 201
             THEN /\ Len(store') = Len(store) + 1
                  /\ SubSeq(store', 1, Len(store)) = store
             ELSE store' = store
       /\ req'.kind # "post" => store' = store]_vars

\* C1 witness: a second submission accepted, after a rejected one or not
C1_Witness == Posted /\ res.status = 201 /\ Len(store) = 2

\* the fields of a submission that fail at least one request validator
InvalidFields(body, t) ==
    LET errors == validateQuote(body, t).errors
    IN  {errors[i].param : i \in DOMAIN errors}

\* the {field, message} entries a 400 answer carries: the errors list when the
\* body has one, and otherwise the segments of its message
ResponseEntries ==
    IF "errors" \in res.keys
    THEN [i \in DOMAIN res.errors |->
            [field |-> res.errors[i].param, message |-> res.errors[i].msg]]
    ELSE res.message

EntriesFor(f) == {i \in DOMAIN ResponseEntries : ResponseEntries[i].field = f}

\* C2: the 400 answer to a submission with an invalid field carries a list of
\* {field, message} entries, with exactly one entry for each invalid field and
\* none for a valid field.
C2_OneEntryPerInvalidField ==
    (Posted /\ res.status = 400) =>
        /\ "errors" \in res.keys
        /\ \A f \in Fields :
              Cardinality(EntriesFor(f)) = IF f \in InvalidFields(req.body, now) THEN 1 ELSE 0

\* the three validation layers, each given the submission as sent
ClientAccepts(body, t) == validationSchema(body, t)
ServerAccepts(body, t) == validateQuote(body, t).errors = <<>>
ModelAccepts(body, t) == validateDoc(NewQuote(body), t) = <<>>

\* C3: the client schema, the request validators and the schema validators of
\* the model reach the same accept or reject decision on every submission.
C3_LayersAgree ==
    Posted =>
        /\ ClientAccepts(req.body, now) = ServerAccepts(req.body, now)
        /\ ServerAccepts(req.body, now) = ModelAccepts(req.body, now)

\* a free-text value trimmed and with the disallowed characters deleted
Cleaned(v) == trim(removeOutside(trim(v), SanitizeKeep))

\* C4: an accepted submission's free-text fields are stored as submitted,
\* trimmed and with the disallowed characters deleted, so with no character the
\* submitted value did not have; every other field is stored as submitted.
C4_StoredEqualsSanitizedInput ==
    (Posted /\ res.status = 201) =>
        /\ \A f \in {"contractorName", "company", "projectCity"} :
              /\ Created[f] = Cleaned(req.body[f])
              /\ Range(Created[f]) \subseteq Range(req.body[f])
        /\ \A f \in {"roofSize", "roofType", "projectState", "projectDate"} :
              Created[f] = req.body[f]

IsTrimmed(v) == v = trim(v)

OnlyNameChars(v) == \A i \in DOMAIN v : v[i] \in NameChar

\* C5: every stored quote has contractorName and company trimmed and 2 to 100
\* long, contractorName and projectCity made of letters, spaces, hyphens and
\* apostrophes only, 0 < roofSize <= 1,000,000, roofType one of the four types
\* and projectState an uppercase US state code.
C5_AtRestInvariants ==
    \A i \in DOMAIN store :
        LET q == store[i]
        IN  /\ IsTrimmed(q.contractorName) /\ IsTrimmed(q.company)
            /\ Len(q.contractorName) >= 2 /\ Len(q.contractorName) <= 100
            /\ Len(q.company) >= 2 /\ Len(q.company) <= 100
            /\ OnlyNameChars(q.contractorName) /\ OnlyNameChars(q.projectCity)
            /\ q.roofSize > 0 /\ q.roofSize <= 1000000
            /\ q.roofType \in {"Metal", "TPO", "Foam", "Other"}
            /\ q.projectState \in validStateCodes

\* a quote satisfies the filters of a request: an absent filter asks nothing,
\* the state filter compares without regard to case
Satisfies(q, query) ==
    /\ query.state = <<>> \/ toUpperCase(q.projectState) = toUpperCase(query.state)
    /\ query.roofType = "" \/ q.roofType = query.roofType

Matching(query) == {i \in DOMAIN store : Satisfies(store[i], query)}

\* C6: every quote a listing returns is a stored quote that satisfies all the
\* supplied filters, and totalQuotes is the number of stored quotes that do.
C6_ListingHonoursFilters ==
    Listed =>
        /\ \A i \in DOMAIN res.quotes :
              /\ res.quotes[i] \in Range(store)
              /\ Satisfies(res.quotes[i], req.query)
        /\ res.pagination.totalQuotes = Cardinality(Matching(req.query))

\* C6 witness: both filters supplied, a quote returned and another held back
C6_Witness ==
    /\ Listed
    /\ req.query.state # <<>> /\ req.query.roofType # ""
    /\ Len(res.quotes) >= 1
    /\ Cardinality(Matching(req.query)) < Len(store)

\* the quotes the listing returns over all its pages, for the filters of
\* query and a page size
ListedOverAllPages(query, limit) ==
    LET first == getQuotes([query EXCEPT !.page = <<1>>, !.limit = <<limit>>],
                           store, "none", nodeEnv)
    IN  UNION {Range(getQuotes([query EXCEPT !.page = <<p>>, !.limit = <<limit>>],
                               store, "none", nodeEnv).quotes) :
               p \in 1..first.pagination.totalPages}

\* the lines of a text: its pieces between the line breaks
RECURSIVE Lines(_)
Lines(text) ==
    IF \A i \in DOMAIN text : text[i] # NEWLINE THEN <<text>>
    ELSE LET k == CHOOSE i \in DOMAIN text :
                     text[i] = NEWLINE /\ \A j \in 1..(i - 1) : text[j] # NEWLINE
         IN  <<SubSeq(text, 1, k - 1)>> \o Lines(SubSeq(text, k + 1, Len(text)))

\* the lines of the export after the header line
DataRows == Tail(Lines(res.csvContent))

C8_StateFilterIgnoresCase ==
    /\ Listed =>
          res = getQuotes([req.query EXCEPT !.state = toUpperCase(@)],
                          store, "none", nodeEnv)
    /\ Exported =>
          res = exportQuotesCSV([req.query EXCEPT !.state = toUpperCase(@)],
                                store, "none", nodeEnv)

\* C8 witness: a listing filtered by "ca" that returns quotes
C8_Witness ==
    Listed /\ req.query.state = <<"c","a">> /\ Len(res.quotes) >= 1

PageOf(query) == IF query.page = <<>> THEN 1 ELSE query.page[1]
LimitOf(query) == IF query.limit = <<>> THEN 10 ELSE query.limit[1]

C10_MissingQuoteGetsNoDocument ==
    (/\ req.kind = "pdf"
     /\ req.id >= 1
     /\ Surfaced(req.fault, retryReads) = "none"
     /\ \A i \in DOMAIN store : store[i].id # req.id) =>
        /\ res.status = 404
        /\ res.contentType # "application/pdf"
        /\ res.disposition = 0
        /\ res.pdf = <<>>

\* C10 witness: a 404 for an unknown id while the store holds quotes
C10_Witness ==
    req.kind = "pdf" /\ req.id >= 1 /\ res.status = 404 /\ Len(store) >= 1

\* C11: a PDF request with an id that does not cast to an ObjectId is answered
\* 400, in development and in production.
C11_MalformedIdIs400 ==
    (req.kind = "pdf" /\ ~castsToObjectId(req.id)) => res.status = 400

\* the submission breaks a field rule: a request validator or a schema
\* validator fails on it
BreaksFieldRule(body, t) ==
    LET v == validateQuote(body, t)
    IN  v.errors # <<>> \/ validateDoc(NewQuote(v.body), t) # <<>>

\* C12: a submission that breaks a field rule, found by a request validator
\* or only by a schema validator, is answered 400 and adds no quote, whatever
\* the mode.
C12_FieldRuleViolationIs400 ==
    [][(req.kind = "none" /\ req'.kind = "post" /\ BreaksFieldRule(req'.body, now)) =>
          (res'.status = 400 /\ store' = store)]_vars

\* the store's operation raised an error to the handler of request r
StoreFailed(r) ==
    /\ r.kind \in {"post", "list", "csv"}
    /\ Surfaced(r.fault, IF r.kind = "post" THEN retryWrites ELSE retryReads) # "none"
    /\ r.kind = "post" => ~BreaksFieldRule(r.body, now)

C14_CreateAttemptedOnce ==
    /\ inserts <= 1
    /\ (req.kind = "post" /\ inserts >= 1 /\ req.fault # "none") => res.status >= 500

IsErrorResponse == res.status >= 400

\* the error the handler of the request passed to the error handler was an
\* operational one: the AppError of validateRequest
OperationalError ==
    req.kind = "post" /\ validateQuote(req.body, now).errors # <<>>

ExportedQuotes == findAll(store, buildQuery(req.query.state, req.query.roofType))

\* C16: in the export every field value with a comma, a double quote or a
\* line break is wrapped in double quotes, its double quotes doubled, so the
\* text is the rows of formatted fields.
C16_CsvFieldsEscaped ==
    Exported =>
        res.csvContent =
            csvContentOf(<<csvHeader>> \o
                [i \in DOMAIN ExportedQuotes |->
                    [k \in DOMAIN csvRow(ExportedQuotes[i]) |->
                        formatField(csvRow(ExportedQuotes[i])[k])]])

\* the submission is BaseBody but for its roofSize, and the store works
OnlyRoofSizeVaries ==
    /\ Posted /\ req.fault = "none"
    /\ req.body = [BaseBody(now) EXCEPT !.roofSize = req.body.roofSize]

\* C17: as far as roofSize goes a submission is accepted exactly when
\* 0 < roofSize <= 1,000,000.
C17_RoofSizeBounds ==
    OnlyRoofSizeVaries =>
        ((res.status = 201) <=> (req.body.roofSize > 0 /\ req.body.roofSize <= 1000000))

\* the submission is BaseBody but for its projectState, a state code not in
\* upper case
LowerCaseStateCode ==
    /\ Posted /\ req.fault = "none"
    /\ req.body = [BaseBody(now) EXCEPT !.projectState = req.body.projectState]
    /\ req.body.projectState # toUpperCase(req.body.projectState)
    /\ toUpperCase(req.body.projectState) \in validStateCodes

\* C18: a submission with a valid state code in lower or mixed case is
\* accepted and its projectState stored in upper case.
C18_LowerCaseStateAccepted ==
    LowerCaseStateCode =>
        /\ res.status = 201
        /\ Created.projectState = toUpperCase(req.body.projectState)

\* a comes no later than b in the order the request asks for: by creation
\* time and descending unless it says otherwise
InOrder(a, b, query) ==
    LET by == IF query.sortBy = "" THEN "createdAt" ELSE query.sortBy
    IN  IF query.sortOrder = "asc" THEN a[by] <= b[by] ELSE a[by] >= b[by]

\* C19: a listing returns the quotes in the order of the requested sortBy and
\* sortOrder, and by creation time descending without them.
C19_ListingSortedAsRequested ==
    Listed =>
        \A i, j \in DOMAIN res.quotes :
            i < j => InOrder(res.quotes[i], res.quotes[j], req.query)

\* C20: an export whose filters no stored quote satisfies is answered 200 with
\* the header line alone.
C20_EmptyExportIsHeaderOnly ==
    (req.kind = "csv" /\ Surfaced(req.fault, retryReads) = "none"
        /\ Matching(req.query) = {}) =>
        /\ res.status = 200
        /\ res.contentType = "text/csv"
        /\ res.csvContent = join(csvHeader, ",")

\* C20 witness: a filtered export that finds nothing in a store with quotes
C20_Witness ==
    /\ req.kind = "csv" /\ res.status = 200
    /\ req.query.state # <<>> /\ req.query.roofType # ""
    /\ Len(store) >= 2 /\ Matching(req.query) = {}

----------------------------------------------------------------------------
\* C21: no step updates or deletes a stored quote: every step leaves the
\* quotes already stored where they were, with the same id, field values and
\* createdAt, and a list, PDF or CSV request leaves the whole store unchanged.
C21_StoredQuotesNeverChange ==
    [][/\ Len(store') >= Len(store)
       /\ SubSeq(store', 1, Len(store)) = store
       /\ req'.kind \in {"list", "pdf", "csv", "other"} => store' = store]_vars

\* C21 witness: a submission accepted into a store that held a quote of an
\* earlier time
C21_Witness ==
    /\ Posted /\ res.status = 201
    /\ Len(store) >= 2
    /\ store[1].createdAt < Created.createdAt

\* the stored quotes whose project date the clock has passed
Expired == {i \in DOMAIN store : store[i].projectDate < now}

\* C22: a stored quote whose project date the clock has passed is still read:
\* a listing whose first page holds all matching quotes returns it, an export
\* has its row, and a PDF request for its id is answered with its document.
C22_NoRevalidationOnRead ==
    /\ (/\ Listed
        /\ PageOf(req.query) = 1
        /\ Cardinality(Matching(req.query)) <= LimitOf(req.query)) =>
           \A i \in Expired \cap Matching(req.query) :
               store[i] \in Range(res.quotes)
    /\ Exported =>
           LET rows == Range(DataRows)
           IN  \A i \in Expired \cap Matching(req.query) :
                   join(csvRow(store[i]), ",") \in rows
    /\ (req.kind = "pdf" /\ req.fault = "none") =>
           \A i \in Expired :
               req.id = store[i].id =>
                   (res.status = 200 /\ res.pdf = pdfLines(store[i]))

\* C22 witness: a listing that returns a quote whose project date has passed
C22_Witness ==
    /\ Listed
    /\ \E i \in Expired : store[i] \in Range(res.quotes)

\* the PDF request whose rendering failed after the first bytes went out
LateRenderFailure ==
    /\ req.kind = "pdf"
    /\ req.fault = "RenderErrorAfterFlush"
    /\ \E i \in DOMAIN store : store[i].id = req.id

\* C23: when the rendering of a PDF fails after the headers were sent, the
\* error handler writes no status and no body, so the response is what had
\* been streamed, and it passes the error to next exactly once.
C23_LateErrorIsDelegated ==
    LateRenderFailure =>
        /\ res.nextCalls = 1
        /\ res = [Streaming(findById(store, req.id)[1], req.fault)
                    EXCEPT !.nextCalls = 1]
        /\ res.status = 200 /\ res.keys = {} /\ res.message = <<>>

\* C23 witness: such a failure in production, passed on
C23_Witness ==
    LateRenderFailure /\ nodeEnv = "production" /\ res.nextCalls = 1

\* the quotes of page p of the listing of the request, on the present store
PageQuotes(p) ==
    getQuotes([req.query EXCEPT !.page = <<p>>], store, "none", nodeEnv).quotes

C27_UnknownRouteIs404 ==
    req.kind = "other" => res.status = 404

\* C24: the quotes and the totalQuotes of one listing describe one state of
\* the store, whatever was committed while the request was served: the
\* number of quotes returned is min(limit, max(0, totalQuotes - (page-1)*limit)).
C24_ListingIsOneSnapshot ==
    Listed =>
        LET limit == LimitOf(req.query)
            rest == res.pagination.totalQuotes - (PageOf(req.query) - 1) * limit
        IN  Len(res.quotes) = Min(limit, IF rest < 0 THEN 0 ELSE rest)

\* C28: while no connection has been closed, the callers of getConnection
\* have made at most one client between them, every caller that got a client
\* got that one, and every open client is the one the pool holds.
C28_OneClientPerUri ==
    ~pool.closed =>
        /\ pool.made <= 1
        /\ \A c, d \in Callers :
              (pool.callers[c].pc = "returned" /\ pool.callers[d].pc = "returned") =>
                  pool.callers[c].got = pool.callers[d].got
        /\ pool.opened \subseteq {pool.entry}

\* C29: at most one getQuotes call of the list view is outstanding, and when
\* the view shows neither the loading nor the error display, the quotes it
\* shows are the response to the last call made, which was made with the
\* present filter values.
C29_ListShowsLatestRequest ==
    /\ Cardinality(list.pending) <= 1
    /\ (list.mounted /\ ~list.loading /\ ~list.error) =>
          /\ list.quotes.request = list.issued
          /\ list.quotes.filters = list.filters

\* C29 witness: the quotes of a third call shown, made after a change of a
\* filter
C29_Witness ==
    /\ list.mounted /\ ~list.loading /\ ~list.error
    /\ list.issued = 3
    /\ list.quotes.request = 3
    /\ list.filters.state = CA

\* the dates from t to two years after t
InWindow(d, t) == t <= d /\ d <= t + TwoYears

\* C26: at every time t, with the form open for however long, the client
\* schema, the request validators and the validators of the model each
\* accept exactly the project dates from t to two years after t.
C26_WindowFollowsTheClock ==
    form.loaded =>
        \A d \in Dates :
            /\ ClientAccepts(FormValues(d), form.builtAt) = InWindow(d, now)
            /\ ServerAccepts(FormValues(d), now) = InWindow(d, now)
            /\ ModelAccepts(FormValues(d), now) = InWindow(d, now)

\* C30: when a submission of the form completes, with success or failure,
\* the confirmation message is visible and its timeout is set to hide it
\* five seconds later, whatever the message of the submission before was.
C30_MessageShownAfterEverySubmission ==
    [][(form.submitting /\ ~form'.submitting) =>
          (form'.show /\ form'.timer = TimerDelay)]_vars

============================================================================
